---- MODULE Spec2Model ----
(***************************************************************************)
(* Discrete-event simulation of a single-server FIFO link, as implemented  *)
(* three times in the repository:                                          *)
(*   mode "B"  TraceSimulator  (src/Lab1partB.py)  trace-driven            *)
(*   mode "A"  MM1Simulator    (src/Lab1partA.py)  count-bounded           *)
(*   mode "S"  Simulator       (src/001.py)        count-bounded           *)
(*                                                                         *)
(* Time is measured in bit-times of the 10 Gbps link (1 tick = 1e-4 us),   *)
(* so that every service time is an integer number of ticks.  Times are    *)
(* floats of MantissaBits significant bits: the times of Spec and of       *)
(* BurstSpec are exactly representable, those of FloatSpec are not.        *)
(* Random draws (expovariate) are nondeterministic choices from Gaps,      *)
(* SizesBytes and SizesBits.                                               *)
(***************************************************************************)
EXTENDS Integers, Sequences, FiniteSets, TLC

VARIABLES
    mode,                   \* which simulator is run: "A", "B" or "S"
    trace,                  \* B: rows <<inter_arrival, pkt_size_bytes>>
    npkts,                  \* A, S: requested packet count
    pc,                     \* "init", "loop", "done", "reported", "fault"
    fault,                  \* "none" or the exception raised
    event_list,             \* the heapq list of events
    queue,                  \* A, B: self.queue; S: self.queue.buffer
    total_delay,
    curr_time,              \* A, B
    in_service,             \* A, B
    total_pkts,             \* A, B
    queue_len_record,       \* A, B: 12 counters, index n at position n+1
    pkts_in_system,         \* A, B
    area_under_q,           \* A, B
    last_event_time,        \* A, B
    next_pkt_id,            \* A
    time,                   \* S: self.time
    busy,                   \* S: self.server.busy
    packet_count,           \* S
    total_packets_in_system,\* S
    pn_counter,             \* S: 11 counters, index n at position n+1
    packets,                \* S: the Packet objects, packet k at position k+1
    pushed,                 \* history: the pending events, in push order
    arrived,                \* history: the arrival events dispatched
    departed                \* history: the departures processed

vars == <<mode, trace, npkts, pc, fault, event_list, queue, total_delay,
          curr_time, in_service, total_pkts, queue_len_record,
          pkts_in_system, area_under_q, last_event_time, next_pkt_id,
          time, busy, packet_count, total_packets_in_system, pn_counter,
          packets, pushed, arrived, departed>>

varsAB == <<curr_time, in_service, total_pkts, queue_len_record,
            pkts_in_system, area_under_q, last_event_time, next_pkt_id>>

hist == <<pushed, arrived, departed>>

varsS == <<time, busy, packet_count, total_packets_in_system, pn_counter,
           packets>>

(***************************************************************************)
(* Bounds of the model.                                                    *)
(***************************************************************************)
MaxTrace == 3
MaxNpkts == 3
MaxArrivals == 4

\* The number of significant bits a time keeps (the code's floats keep 53).
MantissaBits == 17

(***************************************************************************)
(* Program constants.                                                      *)
(***************************************************************************)
\* 10 Gbps, in bits per microsecond; one tick is the time of one bit.
LINK_RATE_BPS == 10000

TicksPerUs == LINK_RATE_BPS

\* Sampled / traced values: inter-arrival gaps in ticks (0, 0.8 us, 10 us),
\* packet sizes in bytes and in bits.
Gaps == {0, 8000, 100000}

SizesBytes == {0, 500, 1000}

SizesBits == {0, 4000, 8000}

Rows == Gaps \X SizesBytes

RECURSIVE SeqsUpTo(_, _)
SeqsUpTo(S, n) ==
    IF n = 0 THEN {<<>>}
    ELSE LET shorter == SeqsUpTo(S, n - 1)
         IN  shorter \cup {Append(s, x) : s \in shorter, x \in S}

Traces == SeqsUpTo(Rows, MaxTrace)

(***************************************************************************)
(* Floating-point arithmetic.  Times and their sums are Python floats: the *)
(* result of every operation is rounded to the nearest value of            *)
(* MantissaBits significant bits, ties to the even one.  A value is a      *)
(* number of ticks; values below 2^MantissaBits ticks are exact.           *)
(***************************************************************************)
RECURSIVE Pow2(_)
Pow2(n) == IF n = 0 THEN 1 ELSE 2 * Pow2(n - 1)

\* The least value of more than MantissaBits bits.
MantissaLimit == Pow2(MantissaBits)

\* The spacing of the representable values at the magnitude of x >= 0.
RECURSIVE UlpFrom(_, _)
UlpFrom(x, u) == IF x < u * MantissaLimit THEN u ELSE UlpFrom(x, 2 * u)

Ulp(x) == UlpFrom(x, 1)

\* x >= 0 rounded to the nearest multiple of u, ties to the even one.
RoundTo(x, u) ==
    IF x % u = 0 THEN x
    ELSE IF 2 * (x % u) < u THEN (x \div u) * u
    ELSE IF 2 * (x % u) > u THEN (x \div u + 1) * u
    ELSE IF (x \div u) % 2 = 0 THEN (x \div u) * u
    ELSE (x \div u + 1) * u

\* x >= 0 rounded to nearest, ties to even.
Round(x) == IF x < MantissaLimit THEN x ELSE RoundTo(x, Ulp(x))

\* Float addition, subtraction (of y <= x) and multiplication.
fadd(x, y) == Round(x + y)

fsub(x, y) == Round(x - y)

fmul(x, y) == Round(x * y)

RECURSIVE SumSeq(_)
SumSeq(s) == IF s = <<>> THEN 0 ELSE s[1] + SumSeq(Tail(s))

(***************************************************************************)
(* Event.__lt__ and the heapq operations on event_list.  Positions are     *)
(* 0-based as in heapq; heap[p] is the element at sequence index p + 1.    *)
(***************************************************************************)
\* Mutant: the comparison of Event.__lt__ turned round.
Lt_reversed(a, b) == a.time > b.time

Lt(a, b) == a.time < b.time

RECURSIVE siftdown(_, _, _, _)
siftdown(heap, startpos, pos, newitem) ==
    IF pos > startpos
    THEN LET parentpos == (pos - 1) \div 2
             parent == heap[parentpos + 1]
         IN  IF Lt(newitem, parent)
             THEN siftdown([heap EXCEPT ![pos + 1] = parent],
                           startpos, parentpos, newitem)
             ELSE [heap EXCEPT ![pos + 1] = newitem]
    ELSE [heap EXCEPT ![pos + 1] = newitem]

RECURSIVE siftup(_, _, _, _)
siftup(heap, startpos, pos, newitem) ==
    LET endpos == Len(heap)
        childpos == 2 * pos + 1
        rightpos == childpos + 1
    IN  IF childpos < endpos
        THEN LET c == IF rightpos < endpos
                         /\ ~Lt(heap[childpos + 1], heap[rightpos + 1])
                      THEN rightpos ELSE childpos
             IN  siftup([heap EXCEPT ![pos + 1] = heap[c + 1]],
                        startpos, c, newitem)
        ELSE siftdown([heap EXCEPT ![pos + 1] = newitem],
                      startpos, pos, newitem)

heappush(heap, item) == siftdown(Append(heap, item), 0, Len(heap), item)

\* heappop, split into the item returned and the list left behind.
heappop_item(heap) == heap[1]

heappop_rest(heap) ==
    LET lastelt == heap[Len(heap)]
        h == SubSeq(heap, 1, Len(heap) - 1)
    IN  IF h # <<>> THEN siftup([h EXCEPT ![1] = lastelt], 0, 0, lastelt)
        ELSE h

(***************************************************************************)
(* Initial state: the state after construction of the chosen simulator.    *)
(***************************************************************************)
\* T: the traces given to TraceSimulator; NA, NS: the packet counts given to
\* MM1Simulator and to Simulator.
InitWith(T, NA, NS) ==
    /\ mode \in {"A", "B", "S"}
    /\ trace \in (IF mode = "B" THEN T ELSE {<<>>})
    /\ npkts \in (IF mode = "B" THEN {0} ELSE IF mode = "A" THEN NA ELSE NS)
    /\ pc = "init"
    /\ fault = "none"
    /\ event_list = <<>>
    /\ queue = <<>>
    /\ total_delay = 0
    /\ curr_time = 0
    /\ in_service = FALSE
    /\ total_pkts = 0
    /\ queue_len_record = [i \in 1..12 |-> 0]
    /\ pkts_in_system = 0
    /\ area_under_q = 0
    /\ last_event_time = 0
    /\ next_pkt_id = 0
    /\ time = 0
    /\ busy = FALSE
    /\ packet_count = 0
    /\ total_packets_in_system = 0
    /\ pn_counter = [i \in 1..11 |-> 0]
    /\ packets = <<>>
    /\ pushed = <<>>
    /\ arrived = <<>>
    /\ departed = <<>>

Init == InitWith(Traces, 0..MaxNpkts, 0..MaxNpkts)


(***************************************************************************)
(* History bookkeeping (not program state).  An arrival is logged with the *)
(* number of packets really in the system when it was dispatched, the      *)
(* number the handler counted and the counter index it incremented; a      *)
(* departure with its time and delay.                                      *)
(***************************************************************************)
Without(s, e) == SelectSeq(s, LAMBDA x : x # e)

ArrivalEntry(id, now, n, counted, index) ==
    [pkt_id |-> id, at |-> now, found |-> n, counted |-> counted,
     index |-> index]

DepartureEntry(id, now, delay) == [pkt_id |-> id, at |-> now, delay |-> delay]

(***************************************************************************)
(* TraceSimulator (src/Lab1partB.py).                                      *)
(***************************************************************************)
\* service_time_us of a packet of pkt_size_bytes bytes, in ticks.
service_time_us(pkt_size_bytes) ==
    Round((pkt_size_bytes * 8 * TicksPerUs) \div LINK_RATE_BPS)

\* The index of the counter an arrival increments (0-based).
record_index(n) == IF n <= 10 THEN n ELSE 11

\* Mutant: the counter is assigned 1 where the code adds 1.
record_arrival_assign(rec, n) == [rec EXCEPT ![record_index(n) + 1] = 1]

\* queue_len_record[index] += 1 for an arrival that finds n packets.
record_arrival(rec, n) == [rec EXCEPT ![record_index(n) + 1] = @ + 1]

\* Mutant: the integral taken from time 0, not from last_event_time.
integrate_from_zero(area, n, now, last) == fadd(area, fmul(n, now))

\* area_under_q += pkts_in_system * (curr_time - last_event_time)
integrate(area, n, now, last) == fadd(area, fmul(n, fsub(now, last)))

\* Mutant: the item inserted at the head of the queue.
queue_prepend(q, item) == <<item>> \o q

\* self.queue.append(item)
queue_append(q, item) == Append(q, item)

\* The arrival events of run's for-loop, in row order: row pkt_id arrives at
\* the running sum of the inter-arrival gaps.
RECURSIVE trace_arrivals(_, _, _)
trace_arrivals(rows, pkt_id, arrival_time) ==
    IF pkt_id >= Len(rows) THEN <<>>
    ELSE LET at == fadd(arrival_time, rows[pkt_id + 1][1])
         IN  <<[time |-> at, type |-> "arrival", pkt_id |-> pkt_id]>>
             \o trace_arrivals(rows, pkt_id + 1, at)

\* schedule_event applied to each event of evs in turn.
RECURSIVE schedule_events(_, _)
schedule_events(heap, evs) ==
    IF evs = <<>> THEN heap
    ELSE schedule_events(heappush(heap, Head(evs)), Tail(evs))

\* Mutant: the packet at the tail of the queue is served next.
trace_start_service_last(q, now) ==
    <<[time |-> fadd(now, q[Len(q)][3]), type |-> "departure",
       pkt_id |-> q[Len(q)][1]]>>

\* start_service: the departure event scheduled for the packet at queue[0].
trace_start_service(q, now) ==
    <<[time |-> fadd(now, q[1][3]), type |-> "departure",
       pkt_id |-> q[1][1]]>>

\* Mutant: handle_arrival starts a service whether or not one is running.
trace_arrival_events_always(was_in_service, q, now) ==
    trace_start_service(q, now)

\* The events handle_arrival schedules, the queue being q after the append.
trace_arrival_events(was_in_service, q, now) ==
    IF ~was_in_service THEN trace_start_service(q, now) ELSE <<>>

\* Mutant: handle_departure never starts the next service.
trace_departure_events_none(q, now) == <<>>

\* The events handle_departure schedules, the queue being q after the pop.
trace_departure_events(q, now) ==
    IF q # <<>> THEN trace_start_service(q, now) ELSE <<>>

TraceRunStart ==
    /\ mode = "B"
    /\ pc = "init"
    /\ event_list' = schedule_events(event_list, trace_arrivals(trace, 0, 0))
    /\ pushed' = trace_arrivals(trace, 0, 0)
    /\ pc' = IF event_list' = <<>> THEN "done" ELSE "loop"
    /\ UNCHANGED <<mode, trace, npkts, fault, queue, total_delay, varsAB,
                   varsS, arrived, departed>>

TraceArrival ==
    /\ mode = "B"
    /\ pc = "loop"
    /\ event_list # <<>>
    /\ LET event == heappop_item(event_list)
           rest == heappop_rest(event_list)
           service == service_time_us(trace[event.pkt_id + 1][2])
           index == record_index(pkts_in_system)
           q == queue_append(queue, <<event.pkt_id, event.time, service>>)
           new == trace_arrival_events(in_service, q, event.time)
       IN  /\ event.type = "arrival"
           /\ curr_time' = event.time
           /\ area_under_q' = integrate(area_under_q, pkts_in_system,
                                        event.time, last_event_time)
           /\ last_event_time' = event.time
           /\ queue_len_record' = record_arrival(queue_len_record,
                                                 pkts_in_system)
           /\ pkts_in_system' = pkts_in_system + 1
           /\ queue' = q
           /\ event_list' = schedule_events(rest, new)
           /\ in_service' = TRUE
           /\ pushed' = Without(pushed, event) \o new
           /\ arrived' = Append(arrived, ArrivalEntry(event.pkt_id, event.time,
                                                      Len(queue),
                                                      pkts_in_system, index))
    /\ UNCHANGED <<mode, trace, npkts, pc, fault, total_delay, total_pkts,
                   next_pkt_id, varsS, departed>>

TraceDeparture ==
    /\ mode = "B"
    /\ pc = "loop"
    /\ event_list # <<>>
    /\ LET event == heappop_item(event_list)
           rest == heappop_rest(event_list)
           q == Tail(queue)
           new == trace_departure_events(q, event.time)
           delay == fsub(event.time, queue[1][2])
       IN  /\ event.type = "departure"
           /\ queue # <<>>
           /\ curr_time' = event.time
           /\ area_under_q' = integrate(area_under_q, pkts_in_system,
                                        event.time, last_event_time)
           /\ last_event_time' = event.time
           /\ total_delay' = fadd(total_delay, delay)
           /\ total_pkts' = total_pkts + 1
           /\ pkts_in_system' = pkts_in_system - 1
           /\ queue' = q
           /\ event_list' = schedule_events(rest, new)
           /\ in_service' = (q # <<>>)
           /\ pushed' = Without(pushed, event) \o new
           /\ departed' = Append(departed,
                                 DepartureEntry(queue[1][1], event.time, delay))
    /\ UNCHANGED <<mode, trace, npkts, pc, fault, queue_len_record,
                   next_pkt_id, varsS, arrived>>

\* The state run's handlers read and write, with the events they schedule.
TraceState ==
    [queue |-> queue, total_delay |-> total_delay, curr_time |-> curr_time,
     in_service |-> in_service, total_pkts |-> total_pkts,
     queue_len_record |-> queue_len_record,
     pkts_in_system |-> pkts_in_system, area_under_q |-> area_under_q,
     last_event_time |-> last_event_time, scheduled |-> <<>>]

\* The loop body of run for a popped arrival event, as a function of the
\* state: the integration and handle_arrival.
trace_handle_arrival(st, event) ==
    LET service == service_time_us(trace[event.pkt_id + 1][2])
        q == queue_append(st.queue, <<event.pkt_id, event.time, service>>)
        new == trace_arrival_events(st.in_service, q, event.time)
    IN  [st EXCEPT
            !.curr_time = event.time,
            !.area_under_q = integrate(st.area_under_q, st.pkts_in_system,
                                       event.time, st.last_event_time),
            !.last_event_time = event.time,
            !.queue_len_record = record_arrival(st.queue_len_record,
                                                st.pkts_in_system),
            !.pkts_in_system = st.pkts_in_system + 1,
            !.queue = q,
            !.in_service = TRUE,
            !.scheduled = st.scheduled \o new]

\* The loop body of run for a popped departure event: the integration and
\* handle_departure.
trace_handle_departure(st, event) ==
    LET q == Tail(st.queue)
        new == trace_departure_events(q, event.time)
        delay == fsub(event.time, st.queue[1][2])
    IN  [st EXCEPT
            !.curr_time = event.time,
            !.area_under_q = integrate(st.area_under_q, st.pkts_in_system,
                                       event.time, st.last_event_time),
            !.last_event_time = event.time,
            !.total_delay = fadd(st.total_delay, delay),
            !.total_pkts = st.total_pkts + 1,
            !.pkts_in_system = st.pkts_in_system - 1,
            !.queue = q,
            !.in_service = (q # <<>>),
            !.scheduled = st.scheduled \o new]

\* if event.type == 'arrival': ... elif event.type == 'departure': ...
trace_dispatch(st, event) ==
    IF event.type = "arrival" THEN trace_handle_arrival(st, event)
    ELSE trace_handle_departure(st, event)

\* The while-loop of run ends when the event list is empty.
TraceLoopExit ==
    /\ mode = "B"
    /\ pc = "loop"
    /\ event_list = <<>>
    /\ pc' = "done"
    /\ UNCHANGED <<mode, trace, npkts, fault, event_list, queue, total_delay,
                   varsAB, varsS, hist>>

\* print_stats: the divisions by curr_time, total_pkts and total_arrivals.
TracePrintStats ==
    /\ mode = "B"
    /\ pc = "done"
    /\ IF curr_time = 0 \/ total_pkts = 0 \/ SumSeq(queue_len_record) = 0
       THEN pc' = "fault" /\ fault' = "ZeroDivisionError"
       ELSE pc' = "reported" /\ fault' = fault
    /\ UNCHANGED <<mode, trace, npkts, event_list, queue, total_delay,
                   varsAB, varsS, hist>>

(***************************************************************************)
(* MM1Simulator (src/Lab1partA.py).  The gap to the next arrival and the   *)
(* size of the packet entering service are drawn when the code draws them, *)
(* from the sets G and Z an action is given; 0 stands for no draw.         *)
(***************************************************************************)
\* service_time of a packet of pkt_size_bits bits, in ticks.
mm1_service_time(pkt_size_bits) ==
    Round((pkt_size_bits * TicksPerUs) \div LINK_RATE_BPS)

\* start_service: the departure event scheduled for the packet at queue[0].
mm1_start_service(q, now, pkt_size_bits) ==
    <<[time |-> fadd(now, mm1_service_time(pkt_size_bits)),
       type |-> "departure", pkt_id |-> q[1][1]]>>

\* Mutant: handle_arrival does not schedule the next arrival.
mm1_arrival_events_no_next(was_in_service, q, now, gap, id, pkt_size_bits) ==
    IF ~was_in_service THEN mm1_start_service(q, now, pkt_size_bits)
    ELSE <<>>

\* The events handle_arrival schedules: the next arrival, then the departure
\* of queue[0] if no packet was in service.
mm1_arrival_events(was_in_service, q, now, gap, id, pkt_size_bits) ==
    <<[time |-> fadd(now, gap), type |-> "arrival", pkt_id |-> id]>>
    \o (IF ~was_in_service THEN mm1_start_service(q, now, pkt_size_bits)
        ELSE <<>>)

\* The events handle_departure schedules, the queue being q after the pop.
mm1_departure_events(q, now, pkt_size_bits) ==
    IF q # <<>> THEN mm1_start_service(q, now, pkt_size_bits) ELSE <<>>

\* Mutant: the loop runs while total_pkts <= npkts.
mm1_loop_condition_le(total, n) == total <= n

\* The condition of run's while-loop.
mm1_loop_condition(total, n) == total < n

MM1RunStartWith(G) ==
    /\ mode = "A"
    /\ pc = "init"
    /\ \E gap \in G :
          LET first == <<[time |-> gap, type |-> "arrival",
                          pkt_id |-> next_pkt_id]>>
          IN  /\ event_list' = schedule_events(event_list, first)
              /\ pushed' = first
    /\ next_pkt_id' = next_pkt_id + 1
    /\ pc' = "loop"
    /\ UNCHANGED <<mode, trace, npkts, fault, queue, total_delay, curr_time,
                   in_service, total_pkts, queue_len_record, pkts_in_system,
                   area_under_q, last_event_time, varsS, arrived, departed>>

MM1RunStart == MM1RunStartWith(Gaps)

MM1ArrivalWith(G, Z, cap) ==
    /\ mode = "A"
    /\ pc = "loop"
    /\ mm1_loop_condition(total_pkts, npkts)
    /\ event_list # <<>>
    /\ next_pkt_id < cap
    /\ \E gap \in G, pkt_size_bits \in Z \cup {0} :
          LET event == heappop_item(event_list)
              rest == heappop_rest(event_list)
              q == queue_append(queue, <<event.pkt_id, event.time>>)
              new == mm1_arrival_events(in_service, q, event.time, gap,
                                        next_pkt_id, pkt_size_bits)
          IN  /\ event.type = "arrival"
              /\ (in_service => pkt_size_bits = 0)  \* no size is drawn
              /\ (~in_service => pkt_size_bits \in Z)
              /\ curr_time' = event.time
              /\ area_under_q' = integrate(area_under_q, pkts_in_system,
                                           event.time, last_event_time)
              /\ last_event_time' = event.time
              /\ queue_len_record' = record_arrival(queue_len_record,
                                                    pkts_in_system)
              /\ pkts_in_system' = pkts_in_system + 1
              /\ next_pkt_id' = next_pkt_id + 1
              /\ queue' = q
              /\ event_list' = schedule_events(rest, new)
              /\ in_service' = TRUE
              /\ pushed' = Without(pushed, event) \o new
              /\ arrived' = Append(arrived,
                                   ArrivalEntry(event.pkt_id, event.time,
                                                Len(queue), pkts_in_system,
                                                record_index(pkts_in_system)))
    /\ UNCHANGED <<mode, trace, npkts, pc, fault, total_delay, total_pkts,
                   varsS, departed>>

MM1Arrival == MM1ArrivalWith(Gaps, SizesBits, MaxArrivals)

MM1DepartureWith(Z) ==
    /\ mode = "A"
    /\ pc = "loop"
    /\ mm1_loop_condition(total_pkts, npkts)
    /\ event_list # <<>>
    /\ \E pkt_size_bits \in Z \cup {0} :
          LET event == heappop_item(event_list)
              rest == heappop_rest(event_list)
              q == Tail(queue)
              new == mm1_departure_events(q, event.time, pkt_size_bits)
              delay == fsub(event.time, queue[1][2])
          IN  /\ event.type = "departure"
              /\ queue # <<>>
              /\ (q = <<>> => pkt_size_bits = 0)  \* no size is drawn
              /\ (q # <<>> => pkt_size_bits \in Z)
              /\ curr_time' = event.time
              /\ area_under_q' = integrate(area_under_q, pkts_in_system,
                                           event.time, last_event_time)
              /\ last_event_time' = event.time
              /\ total_delay' = fadd(total_delay, delay)
              /\ total_pkts' = total_pkts + 1
              /\ pkts_in_system' = pkts_in_system - 1
              /\ queue' = q
              /\ event_list' = schedule_events(rest, new)
              /\ in_service' = (q # <<>>)
              /\ pushed' = Without(pushed, event) \o new
              /\ departed' = Append(departed, DepartureEntry(queue[1][1],
                                                             event.time, delay))
    /\ UNCHANGED <<mode, trace, npkts, pc, fault, queue_len_record,
                   next_pkt_id, varsS, arrived>>

MM1Departure == MM1DepartureWith(SizesBits)

\* The while-loop of run ends once total_pkts has reached npkts.
MM1LoopExit ==
    /\ mode = "A"
    /\ pc = "loop"
    /\ ~mm1_loop_condition(total_pkts, npkts)
    /\ pc' = "done"
    /\ UNCHANGED <<mode, trace, npkts, fault, event_list, queue, total_delay,
                   varsAB, varsS, hist>>

\* print_stats: the divisions by curr_time, total_pkts and total_arrivals.
MM1PrintStats ==
    /\ mode = "A"
    /\ pc = "done"
    /\ IF curr_time = 0 \/ total_pkts = 0 \/ SumSeq(queue_len_record) = 0
       THEN pc' = "fault" /\ fault' = "ZeroDivisionError"
       ELSE pc' = "reported" /\ fault' = fault
    /\ UNCHANGED <<mode, trace, npkts, event_list, queue, total_delay,
                   varsAB, varsS, hist>>

(***************************************************************************)
(* Simulator (src/001.py).  An event refers to its Packet object by the    *)
(* packet's number; departure_time None is -1.                             *)
(***************************************************************************)
None == -1

\* generate_packet: Packet(packet_count, time + inter_arrival_time, size).
generate_packet(count, now, size, inter_arrival_time) ==
    [number |-> count, arrival_time |-> fadd(now, inter_arrival_time),
     size |-> size, departure_time |-> None]

\* Mutant: the size taken in bits where it is in bytes.
sim_service_time_bytes(size) ==
    Round((size * TicksPerUs) \div LINK_RATE_BPS)

\* service_time of a packet of size bytes, in ticks.
sim_service_time(size) ==
    Round((size * 8 * TicksPerUs) \div LINK_RATE_BPS)

\* The index of the pn_counter entry an arrival increments (0-based).
pn_index(num_in_system) ==
    IF num_in_system < 10 THEN num_in_system ELSE 10

\* Mutant: the arriving packet is queued even when it enters service.
sim_arrival_buffer_always(buffer, was_busy, number) == Append(buffer, number)

\* handle_arrival: the waiting queue after the arrival of packet number.
sim_arrival_buffer(buffer, was_busy, number) ==
    IF ~was_busy THEN buffer ELSE Append(buffer, number)

\* Mutant: one packet more than npkts is generated.
sim_more_packets_le(count, n) == count <= n

\* handle_arrival: whether a further packet is generated.
sim_more_packets(count, n) == count < n

SimRunStartWith(Z, G) ==
    /\ mode = "S"
    /\ pc = "init"
    /\ \E size \in Z, gap \in G :
          LET first_packet == generate_packet(packet_count, time, size, gap)
              first == <<[time |-> first_packet.arrival_time,
                          event_type |-> "arrival",
                          packet |-> first_packet.number]>>
          IN  /\ packets' = Append(packets, first_packet)
              /\ event_list' = schedule_events(event_list, first)
              /\ pushed' = first
    /\ packet_count' = packet_count + 1
    /\ pc' = "loop"
    /\ UNCHANGED <<mode, trace, npkts, fault, queue, total_delay, varsAB,
                   time, busy, total_packets_in_system, pn_counter,
                   arrived, departed>>

SimRunStart == SimRunStartWith(SizesBytes, Gaps)

SimArrivalWith(Z, G) ==
    /\ mode = "S"
    /\ pc = "loop"
    /\ event_list # <<>>
    /\ \E size \in Z \cup {0}, gap \in G \cup {0} :
          LET event == heappop_item(event_list)
              rest == heappop_rest(event_list)
              packet == packets[event.packet + 1]
              num_in_system == Len(queue)
              departure_time == fadd(event.time, sim_service_time(packet.size))
              served == IF ~busy
                        THEN <<[time |-> departure_time,
                                event_type |-> "departure",
                                packet |-> packet.number]>>
                        ELSE <<>>
              more == sim_more_packets(packet_count, npkts)
              new_packet == generate_packet(packet_count, event.time, size,
                                            gap)
              next == IF more
                      THEN <<[time |-> new_packet.arrival_time,
                              event_type |-> "arrival",
                              packet |-> new_packet.number]>>
                      ELSE <<>>
              stamped == IF ~busy
                         THEN [packets EXCEPT ![event.packet + 1].departure_time
                                                  = departure_time]
                         ELSE packets
          IN  /\ event.event_type = "arrival"
              /\ (~more => size = 0 /\ gap = 0)  \* no packet is generated
              /\ (more => size \in Z /\ gap \in G)
              /\ time' = event.time
              /\ pn_counter' = [pn_counter EXCEPT
                                   ![pn_index(num_in_system) + 1] = @ + 1]
              /\ busy' = TRUE
              /\ queue' = sim_arrival_buffer(queue, busy, packet.number)
              /\ packets' = IF more THEN Append(stamped, new_packet)
                            ELSE stamped
              /\ packet_count' = IF more THEN packet_count + 1
                                 ELSE packet_count
              /\ event_list' = schedule_events(rest, served \o next)
              /\ pushed' = Without(pushed, event) \o served \o next
              /\ arrived' = Append(arrived,
                                   ArrivalEntry(packet.number, event.time,
                                                Len(queue)
                                                + (IF busy THEN 1 ELSE 0),
                                                num_in_system,
                                                pn_index(num_in_system)))
    /\ UNCHANGED <<mode, trace, npkts, pc, fault, total_delay, varsAB,
                   total_packets_in_system, departed>>

SimArrival == SimArrivalWith(SizesBytes, Gaps)

SimDeparture ==
    /\ mode = "S"
    /\ pc = "loop"
    /\ event_list # <<>>
    /\ LET event == heappop_item(event_list)
           rest == heappop_rest(event_list)
           packet == packets[event.packet + 1]
           delay == fsub(packet.departure_time, packet.arrival_time)
           waiting == queue # <<>>
           next_packet == packets[Head(queue) + 1]
           departure_time == fadd(event.time,
                                  sim_service_time(next_packet.size))
           new == IF waiting
                  THEN <<[time |-> departure_time, event_type |-> "departure",
                          packet |-> next_packet.number]>>
                  ELSE <<>>
       IN  /\ event.event_type = "departure"
           /\ time' = event.time
           /\ total_delay' = fadd(total_delay, delay)
           /\ total_packets_in_system' = total_packets_in_system + 1
           /\ queue' = IF waiting THEN Tail(queue) ELSE queue
           /\ packets' = IF waiting
                         THEN [packets EXCEPT ![Head(queue) + 1].departure_time
                                                  = departure_time]
                         ELSE packets
           /\ busy' = waiting
           /\ event_list' = schedule_events(rest, new)
           /\ pushed' = Without(pushed, event) \o new
           /\ departed' = Append(departed,
                                 DepartureEntry(packet.number, event.time,
                                                delay))
    /\ UNCHANGED <<mode, trace, npkts, pc, fault, varsAB, packet_count,
                   pn_counter, arrived>>

\* The loop of run breaks when the event list is empty, and run ends with
\* print_summary: the divisions by total_packets_in_system, time and
\* total_arrivals.
SimFinish ==
    /\ mode = "S"
    /\ pc = "loop"
    /\ event_list = <<>>
    /\ IF total_packets_in_system = 0 \/ time = 0 \/ SumSeq(pn_counter) = 0
       THEN pc' = "fault" /\ fault' = "ZeroDivisionError"
       ELSE pc' = "reported" /\ fault' = fault
    /\ UNCHANGED <<mode, trace, npkts, event_list, queue, total_delay,
                   varsAB, varsS, hist>>

Next ==
    \/ TraceRunStart
    \/ TraceArrival
    \/ TraceDeparture
    \/ TraceLoopExit
    \/ TracePrintStats
    \/ MM1RunStart
    \/ MM1Arrival
    \/ MM1Departure
    \/ MM1LoopExit
    \/ MM1PrintStats
    \/ SimRunStart
    \/ SimArrival
    \/ SimDeparture
    \/ SimFinish

Spec == Init /\ [][Next]_vars

\* One thread of control runs the simulation to the end: a step that can be
\* taken is taken.
FairSpec == Spec /\ WF_vars(Next)

(***************************************************************************)
(* Bursts: the same simulators given enough simultaneous arrivals for an   *)
(* arrival to find more than 10 packets in the system.                     *)
(***************************************************************************)
\* The number of packets of a burst.
BurstPkts == 13

\* Traces of n packets of 1000 bytes that all arrive at time 0.
BurstTraces ==
    {[i \in 1..n |-> <<0, 1000>>] : n \in (BurstPkts - 1)..BurstPkts}

BurstInit == InitWith(BurstTraces, {1}, (BurstPkts - 1)..BurstPkts)

BurstMM1RunStart == MM1RunStartWith({0, 100000})

BurstMM1Arrival == MM1ArrivalWith({0, 100000}, {8000}, BurstPkts)

BurstMM1Departure == MM1DepartureWith({8000})

BurstSimRunStart == SimRunStartWith({1000}, {0})

BurstSimArrival == SimArrivalWith({1000}, {0})

BurstNext ==
    \/ TraceRunStart
    \/ TraceArrival
    \/ TraceDeparture
    \/ TraceLoopExit
    \/ TracePrintStats
    \/ BurstMM1RunStart
    \/ BurstMM1Arrival
    \/ BurstMM1Departure
    \/ MM1LoopExit
    \/ MM1PrintStats
    \/ BurstSimRunStart
    \/ BurstSimArrival
    \/ SimDeparture
    \/ SimFinish

BurstSpec == BurstInit /\ [][BurstNext]_vars

(***************************************************************************)
(* Rounding: TraceSimulator given traces whose times are large enough for  *)
(* the sum of a time and a service time not to be representable.           *)
(***************************************************************************)
\* A gap at which the representable times are 16 ticks apart.
FloatBig == Pow2(MantissaBits + 3)

\* No gap, a gap of MantissaBits ones, and the large gap.
FloatGaps == {0, Pow2(MantissaBits) - 1, FloatBig}

\* Packets of 1, 3 and 16384 bytes: service times of 8, 24 and 2^17 ticks.
FloatSizesBytes == {1, 3, 16384}

FloatTraces == SeqsUpTo(FloatGaps \X FloatSizesBytes, MaxTrace)

FloatInit == InitWith(FloatTraces, {}, {})

FloatNext ==
    \/ TraceRunStart
    \/ TraceArrival
    \/ TraceDeparture
    \/ TraceLoopExit
    \/ TracePrintStats

FloatSpec == FloatInit /\ [][FloatNext]_vars


(***************************************************************************)
(* Properties.                                                             *)
(***************************************************************************)
PktIds(h) == [i \in 1..Len(h) |-> h[i].pkt_id]

\* The first, in push order, of the pending events with the smallest time.
FirstEarliest(s) ==
    LET first == CHOOSE i \in 1..Len(s) :
                     /\ \A j \in 1..Len(s) : s[i].time <= s[j].time
                     /\ \A j \in 1..(i - 1) : s[j].time > s[i].time
    IN  s[first]

\* Scenario A: rows (0, 1000), (10, 1000), (0, 1000), gaps in microseconds.
ScenarioATrace == <<<<0, 1000>>, <<10 * TicksPerUs, 1000>>, <<0, 1000>>>>

\* 0.8 us, the service time of a 1000-byte packet.
Us08 == (8 * TicksPerUs) \div 10

\* C1: Scenario A on TraceSimulator: packet 0 arrives at t=0 finding 0
\* packets and departs at 0.8; packet 1's arrival at t=10 is dispatched
\* before packet 2's, finds the server idle and departs at 10.8; packet 2
\* arrives at t=10, finds 1 packet, queues, and departs at 11.6.
C1_ScenarioA ==
    (mode = "B" /\ trace = ScenarioATrace /\ pc = "done") =>
        /\ PktIds(arrived) = <<0, 1, 2>>
        /\ [i \in 1..3 |-> arrived[i].at]
               = <<0, 10 * TicksPerUs, 10 * TicksPerUs>>
        /\ [i \in 1..3 |-> arrived[i].found] = <<0, 0, 1>>
        /\ PktIds(departed) = <<0, 1, 2>>
        /\ [i \in 1..3 |-> departed[i].at]
               = <<Us08, 10 * TicksPerUs + Us08, 10 * TicksPerUs + 2 * Us08>>

\* C2: the simulated clock (curr_time, and time in 001.py) never moves
\* backwards: every popped event's time is at least the time of the event
\* popped before it.
C2_ClockMonotone == [][curr_time' >= curr_time /\ time' >= time]_vars

C2_Witness ==
    /\ Len(arrived) + Len(departed) >= 3
    /\ Len(event_list) >= 2
    /\ (curr_time > 0 \/ time > 0)

\* C3: events with the same time are popped in the order in which they were
\* pushed: the event at the head of the event list, which the next pop
\* returns, is the earliest pushed of the pending events with the smallest
\* time.
C3_TiesInPushOrder ==
    event_list # <<>> => event_list[1] = FirstEarliest(pushed)

\* C4: in every reachable state of each simulator the number of departures
\* processed is at most the number of arrival events processed.
C4_DeparturesAtMostArrivals ==
    /\ total_pkts <= Len(arrived)
    /\ total_packets_in_system <= Len(arrived)
    /\ Len(departed) <= Len(arrived)

C4_Witness ==
    /\ mode = "S"
    /\ total_packets_in_system >= 1
    /\ Len(arrived) > total_packets_in_system

Drained ==
    /\ total_pkts = Len(trace)
    /\ Len(arrived) = Len(trace)
    /\ Len(departed) = Len(trace)
    /\ \A k \in 0..(Len(trace) - 1) :
          /\ Cardinality({i \in 1..Len(arrived) : arrived[i].pkt_id = k}) = 1
          /\ Cardinality({i \in 1..Len(departed) : departed[i].pkt_id = k}) = 1
    /\ event_list = <<>>
    /\ queue = <<>>
    /\ in_service = FALSE
    /\ pkts_in_system = 0

\* C5: TraceSimulator.run terminates for every trace, and when it has
\* terminated every trace row has arrived and departed exactly once:
\* total_pkts is the number of rows, the event list and the queue are empty,
\* in_service is False and pkts_in_system is 0.
C5_TraceRunTerminatesDrained ==
    /\ (mode = "B") => <>(pc = "done")
    /\ [](mode = "B" /\ pc = "done" => Drained)

C5_Witness ==
    /\ mode = "B"
    /\ pc = "done"
    /\ Len(trace) >= 2
    /\ \E i \in 1..Len(arrived) : arrived[i].found >= 1

\* C6: packets depart in the order in which their arrivals were processed:
\* the ids of the departed packets, in departure order, are the ids of the
\* arrivals processed, in arrival order, restricted to the departed packets.
C6_DepartInArrivalOrder ==
    LET gone == {departed[i].pkt_id : i \in 1..Len(departed)}
    IN  PktIds(departed)
            = PktIds(SelectSeq(arrived, LAMBDA a : a.pkt_id \in gone))

C6_Witness ==
    /\ Len(departed) >= 2
    /\ \E i \in 1..Len(arrived) : arrived[i].found >= 2

\* C7: once an arrival has been processed, the per-n counters sum to the
\* number of arrivals processed (so the reported probabilities, each a
\* counter over that sum, add up to 1).
C7_CountersSumToArrivals ==
    Len(arrived) > 0 =>
        /\ mode \in {"A", "B"} => SumSeq(queue_len_record) = Len(arrived)
        /\ mode = "S" => SumSeq(pn_counter) = Len(arrived)

C7_Witness ==
    /\ mode = "A"
    /\ Len(arrived) >= 3
    /\ queue_len_record[1] >= 2

ZeroInput ==
    \/ mode = "B" /\ trace = <<>>
    \/ mode \in {"A", "S"} /\ npkts = 0

\* C8: a run with 0 packets or an empty trace, followed by the statistics
\* report, never divides by zero.
C8_ZeroInputNoDivisionByZero == ZeroInput => fault # "ZeroDivisionError"

\* C9: in both count-bounded simulators a run requested with npkts = 0
\* processes no arrival and no departure event and leaves the clock at 0.
C9_ZeroPacketsNoEvents ==
    (mode \in {"A", "S"} /\ npkts = 0) =>
        /\ arrived = <<>>
        /\ departed = <<>>
        /\ curr_time = 0
        /\ time = 0

\* C10: Scenario B on TraceSimulator: for a trace of one packet with gap a
\* and service time s, at the end of the run the recorded delay is s and
\* area_under_q is s.
C10_SinglePacket ==
    (mode = "B" /\ Len(trace) = 1 /\ pc = "done") =>
        LET s == service_time_us(trace[1][2])
        IN  /\ Len(departed) = 1
            /\ departed[1].delay = s
            /\ total_delay = s
            /\ area_under_q = s

C10_Witness ==
    /\ mode = "B"
    /\ Len(trace) = 1
    /\ pc = "done"
    /\ trace[1][1] > 0
    /\ trace[1][2] > 0

Events(h) == {h[i] : i \in 1..Len(h)}

\* The departure events pending in the event list.
PendingDepartures ==
    IF mode = "S"
    THEN {e \in Events(event_list) : e.event_type = "departure"}
    ELSE {e \in Events(event_list) : e.type = "departure"}

\* The arrival events pending in the event list.
PendingArrivals ==
    IF mode = "S"
    THEN {e \in Events(event_list) : e.event_type = "arrival"}
    ELSE {e \in Events(event_list) : e.type = "arrival"}

\* C12: between events at most one packet is in service (at most one
\* departure is pending); in MM1Simulator and TraceSimulator in_service is
\* True exactly when the queue is non-empty; in Simulator (001.py) busy False
\* implies that the waiting queue is empty.
C12_OneInServiceIdleImpliesEmpty ==
    /\ Cardinality(PendingDepartures) <= 1
    /\ mode \in {"A", "B"} => (in_service <=> queue # <<>>)
    /\ mode = "S" => (~busy => queue = <<>>)

C12_Witness ==
    /\ mode = "B"
    /\ in_service
    /\ Len(queue) >= 2
    /\ Cardinality(PendingDepartures) = 1

\* C13 as claimed: MM1Simulator.run with npkts >= 1 stops with
\* total_pkts = npkts and no event left in the event list.
C13_StopsWithEmptyEventList ==
    (mode = "A" /\ npkts >= 1 /\ pc = "done") =>
        /\ total_pkts = npkts
        /\ event_list = <<>>

\* C13 as amended: MM1Simulator.run with npkts >= 1 stops as soon as npkts
\* departures have been processed: at termination total_pkts = npkts, and
\* the event list is not empty: it still holds exactly one arrival event
\* (and at most one departure event).
C13_StopsAtCountEventsPending ==
    (mode = "A" /\ npkts >= 1 /\ pc = "done") =>
        /\ total_pkts = npkts
        /\ Cardinality(PendingArrivals) = 1
        /\ Cardinality(PendingDepartures) <= 1
        /\ Len(event_list)
               = Cardinality(PendingArrivals) + Cardinality(PendingDepartures)

C13_Witness ==
    /\ mode = "A"
    /\ npkts >= 2
    /\ pc = "done"
    /\ Cardinality(PendingDepartures) = 1

\* The counter index for n packets found: n up to 10, beyond that the
\* simulator's last counter (index 11, and index 10 in 001.py).
ClampedIndex(n) ==
    IF n <= 10 THEN n ELSE IF mode = "S" THEN 10 ELSE 11

\* C14: on every arrival the counter incremented is indexed by the number
\* of packets in the system at that instant, waiting packets plus the one in
\* service, clamped; in 001.py as in MM1Simulator and TraceSimulator.
C14_IndexIsNumberInSystem ==
    \A i \in 1..Len(arrived) : arrived[i].index = ClampedIndex(arrived[i].found)

\* The per-n counters of the running simulator.
Counters == IF mode = "S" THEN pn_counter ELSE queue_len_record

\* C11: in every simulator an arrival that counts n <= 10 packets in the
\* system increments counter n and no other; one that counts n > 10
\* increments a separate overflow bucket, never the counter of n = 10; and
\* no index outside the counter array is written.
C11_OverflowBucketSeparate ==
    /\ \A i \in 1..Len(arrived) :
          /\ arrived[i].counted <= 10 => arrived[i].index = arrived[i].counted
          /\ arrived[i].counted > 10 => arrived[i].index > 10
          /\ arrived[i].index < Len(Counters)
    /\ \A k \in 1..Len(Counters) :
          Counters[k] =
              Cardinality({i \in 1..Len(arrived) : arrived[i].index = k - 1})

\* The service time, in ticks, of a packet of size bytes at the link rate.
BytesTime(size) == (size * 8 * TicksPerUs) \div LINK_RATE_BPS

\* C16: Simulator.handle_arrival (001.py): an arrival while the server is
\* idle sets busy, leaves the waiting queue unchanged and schedules exactly
\* one departure event, for that packet, at time + size*8/rate; an arrival
\* while the server is busy appends the packet to the end of the waiting
\* queue, schedules no departure event and leaves busy unchanged.
C16_SimArrivalEffect ==
    [][(mode = "S" /\ Len(arrived') = Len(arrived) + 1) =>
          LET id == arrived'[Len(arrived')].pkt_id
              scheduled == PendingDepartures' \ PendingDepartures
          IN  IF ~busy
              THEN /\ busy'
                   /\ queue' = queue
                   /\ scheduled
                        = {[time |-> time' + BytesTime(packets[id + 1].size),
                            event_type |-> "departure", packet |-> id]}
                   /\ Cardinality(PendingDepartures')
                          = Cardinality(PendingDepartures) + 1
              ELSE /\ busy' = busy
                   /\ queue' = Append(queue, id)
                   /\ PendingDepartures' = PendingDepartures]_vars

C16_Witness ==
    /\ mode = "S"
    /\ \E i \in 1..Len(arrived) : arrived[i].found = 0 /\ arrived[i].at > 0
    /\ \E i \in 1..Len(arrived) : arrived[i].found >= 2
    /\ Len(queue) >= 2

\* C17: on every departure of Simulator (001.py) and TraceSimulator, if a
\* packet is waiting, the head of the waiting sequence begins service,
\* exactly one departure event is scheduled, for it, at the current time
\* plus its service time, and the server stays busy; if no packet is waiting
\* the server becomes idle and no departure event is scheduled.
C17_DepartureEffect ==
    [][(mode \in {"B", "S"} /\ Len(departed') = Len(departed) + 1) =>
          IF mode = "S"
          THEN IF queue # <<>>
               THEN /\ busy'
                    /\ queue' = Tail(queue)
                    /\ PendingDepartures'
                         = {[time |-> time'
                                      + BytesTime(packets[Head(queue) + 1].size),
                             event_type |-> "departure",
                             packet |-> Head(queue)]}
               ELSE /\ ~busy'
                    /\ queue' = queue
                    /\ PendingDepartures' = {}
          ELSE IF Tail(queue) # <<>>
               THEN /\ in_service'
                    /\ queue' = Tail(queue)
                    /\ PendingDepartures'
                         = {[time |-> curr_time'
                                      + BytesTime(trace[queue[2][1] + 1][2]),
                             type |-> "departure", pkt_id |-> queue[2][1]]}
               ELSE /\ ~in_service'
                    /\ queue' = <<>>
                    /\ PendingDepartures' = {}]_vars

C17_Witness ==
    /\ mode = "B"
    /\ Len(departed) >= 1
    /\ Len(queue) >= 2
    /\ \E i \in 1..Len(arrived) : arrived[i].found = 0 /\ arrived[i].at > 0

RECURSIVE SumAt(_)
SumAt(h) == IF h = <<>> THEN 0 ELSE h[1].at + SumAt(Tail(h))

\* The integral over [0, T] of the number of packets in the system
\* (arrivals dispatched minus departures processed), from the event log.
AreaUpTo(T) ==
    (Len(arrived) * T - SumAt(arrived)) - (Len(departed) * T - SumAt(departed))

C19_NextPktIdIsArrivals ==
    (mode = "A" /\ pc = "done") =>
        /\ next_pkt_id = Len(arrived)
        /\ next_pkt_id = SumSeq(queue_len_record)

SimEnded == mode = "S" /\ pc \in {"reported", "fault"}

\* C20: Simulator.run (001.py) with npkts >= 1 terminates, and when it has
\* terminated exactly npkts packets were generated and each has arrived and
\* departed exactly once: packet_count and total_packets_in_system are
\* npkts, event_list and the waiting queue are empty and busy is False.
C20_SimRunTerminatesDrained ==
    /\ (mode = "S" /\ npkts >= 1) => <>SimEnded
    /\ [](SimEnded /\ npkts >= 1 =>
            /\ packet_count = npkts
            /\ total_packets_in_system = npkts
            /\ PktIds(departed) = [i \in 1..npkts |-> i - 1]
            /\ \A k \in 0..(npkts - 1) :
                  Cardinality({i \in 1..Len(arrived) :
                                   arrived[i].pkt_id = k}) = 1
            /\ event_list = <<>>
            /\ queue = <<>>
            /\ ~busy)

C20_Witness ==
    /\ SimEnded
    /\ npkts >= 2
    /\ \E i \in 1..Len(arrived) : arrived[i].found >= 1

\* Each step of TraceSimulator's loop is trace_dispatch applied to the
\* popped event.
TraceStepIsDispatch ==
    [][(TraceArrival \/ TraceDeparture) =>
          LET event == heappop_item(event_list)
              r == trace_dispatch(TraceState, event)
          IN  /\ TraceState' = [r EXCEPT !.scheduled = <<>>]
              /\ pushed' = Without(pushed, event) \o r.scheduled]_vars

\* The pairs of pending events of TraceSimulator that carry the same
\* timestamp and are next to be processed, one of them at least an arrival.
SimultaneousPairs ==
    IF mode = "B" /\ pc = "loop"
    THEN {p \in Events(event_list) \X Events(event_list) :
            /\ p[1] # p[2]
            /\ p[1].time = p[2].time
            /\ \A e \in Events(event_list) : p[1].time <= e.time
            /\ p[1].type = "arrival" \/ p[2].type = "arrival"}
    ELSE {}

\* The state after first is processed and then second.
After(first, second) ==
    trace_dispatch(trace_dispatch(TraceState, first), second)

\* C15 as stated: in TraceSimulator, processing an arrival and a departure,
\* or two arrivals, of the same timestamp in either order leads to the same
\* state, queue_len_record, total_delay, area_under_q and the departures
\* scheduled afterwards included.
C15_SimultaneousEventsCommute ==
    \A p \in SimultaneousPairs : After(p[1], p[2]) = After(p[2], p[1])

\* C15 amended: either order leads to the same clock, number in system,
\* in_service, total_pkts, total_delay and area_under_q; an arrival and a
\* departure also lead to the same queue and the same scheduled departure;
\* two arrivals also lead to the same queue_len_record.
C15_SimultaneousEventsCommuteOnTotals ==
    \A p \in SimultaneousPairs :
        LET x == After(p[1], p[2])
            y == After(p[2], p[1])
        IN  /\ x.curr_time = y.curr_time
            /\ x.last_event_time = y.last_event_time
            /\ x.pkts_in_system = y.pkts_in_system
            /\ x.in_service = y.in_service
            /\ x.total_pkts = y.total_pkts
            /\ x.total_delay = y.total_delay
            /\ x.area_under_q = y.area_under_q
            /\ (p[1].type # p[2].type =>
                    x.queue = y.queue /\ x.scheduled = y.scheduled)
            /\ (p[1].type = p[2].type =>
                    x.queue_len_record = y.queue_len_record)

\* An arrival and a departure of the same timestamp, later than 0, are
\* next, and so are, in another run, two arrivals.
C15_Witness ==
    \E p \in SimultaneousPairs :
        /\ p[1].type = "arrival"
        /\ p[2].type = "departure"
        /\ p[1].time > 0
        /\ pkts_in_system >= 2

\* The positions of the departure events in the event list of MM1Simulator
\* or TraceSimulator.
DeparturePositions ==
    {i \in 1..Len(event_list) : event_list[i].type = "departure"}

\* C21: in MM1Simulator and TraceSimulator, between events, the event list
\* holds at most one departure event, holds one exactly when in_service is
\* True, and that event carries the id of the packet at queue[0]; so
\* handle_departure never pops an empty queue and removes the packet whose
\* departure was scheduled.
C21_OneDepartureForQueueHead ==
    mode \in {"A", "B"} =>
        /\ Cardinality(DeparturePositions) <= 1
        /\ in_service <=> Cardinality(DeparturePositions) = 1
        /\ \A i \in DeparturePositions :
              /\ queue # <<>>
              /\ event_list[i].pkt_id = queue[1][1]

C21_Witness ==
    /\ mode = "A"
    /\ pc = "loop"
    /\ Len(departed) >= 1
    /\ Len(queue) >= 2
    /\ \E i \in DeparturePositions : event_list[i].pkt_id = queue[1][1]

\* TraceSimulator.run has returned.
TraceEnded == mode = "B" /\ pc \in {"done", "reported", "fault"}

AbsDiff(x, y) == IF x >= y THEN x - y ELSE y - x

\* C22 as stated: after a complete TraceSimulator.run, area_under_q equals
\* total_delay: the time integral of pkts_in_system over the run is the sum
\* of the sojourn times of all packets.
C22_AreaIsTotalDelay ==
    TraceEnded => area_under_q = total_delay

\* C22 amended: after a complete TraceSimulator.run of n packets,
\* area_under_q and total_delay differ by rounding only: by at most 7 * n^2
\* times the spacing of the floats at the final clock.
C22_AreaNearTotalDelay ==
    TraceEnded =>
        AbsDiff(area_under_q, total_delay)
            <= 7 * Len(trace) * Len(trace) * Ulp(curr_time)

\* A run with queueing has ended and rounding has separated the two sums.
C22_Witness ==
    /\ TraceEnded
    /\ Len(departed) = Len(trace)
    /\ Len(departed) >= 2
    /\ \E i \in 1..Len(arrived) : arrived[i].found >= 1
    /\ area_under_q # total_delay

\* The service time of packet id of the trace, and the number of packets
\* its arrival counted in the system.
ServiceOf(id) == service_time_us(trace[id + 1][2])

FoundBy(id) ==
    LET i == CHOOSE i \in 1..Len(arrived) : arrived[i].pkt_id = id
    IN  arrived[i].counted

\* C24: in TraceSimulator every departed packet's recorded delay
\* is at least its own service time, and equals it whenever pkts_in_system
\* was 0 when the packet arrived.
C24_DelayAtLeastService ==
    mode = "B" =>
        \A i \in 1..Len(departed) :
            /\ departed[i].delay >= ServiceOf(departed[i].pkt_id)
            /\ FoundBy(departed[i].pkt_id) = 0 =>
                  departed[i].delay = ServiceOf(departed[i].pkt_id)

\* How far the recorded delay strays: it is at least the service time, and
\* equal to it when pkts_in_system was 0 at the arrival, up to one spacing
\* of the floats at the departure time.
DelayWithinUlpOfService ==
    mode = "B" =>
        \A i \in 1..Len(departed) :
            LET s == ServiceOf(departed[i].pkt_id)
                u == Ulp(departed[i].at)
            IN  /\ departed[i].delay + u >= s
                /\ FoundBy(departed[i].pkt_id) = 0 =>
                      departed[i].delay <= s + u

\* A packet that found the system empty has departed with a delay rounded
\* below its service time, and a packet that waited has departed.
DelayRoundedBelowService ==
    /\ mode = "B"
    /\ \E i \in 1..Len(departed) :
          /\ FoundBy(departed[i].pkt_id) = 0
          /\ departed[i].delay < ServiceOf(departed[i].pkt_id)
    /\ \E i \in 1..Len(departed) :
          /\ FoundBy(departed[i].pkt_id) >= 1
          /\ departed[i].delay > ServiceOf(departed[i].pkt_id)

\* The positions of the arrival events in the event list of MM1Simulator or
\* TraceSimulator.
ArrivalPositions ==
    {i \in 1..Len(event_list) : event_list[i].type = "arrival"}

\* C23: during MM1Simulator.run, at the top of every loop iteration the
\* event list holds exactly one pending arrival event, so heappop is never
\* called on an empty list.
C23_OnePendingArrivalAtLoopTop ==
    (mode = "A" /\ pc = "loop") =>
        /\ Cardinality(ArrivalPositions) = 1
        /\ event_list # <<>>

C23_Witness ==
    /\ mode = "A"
    /\ pc = "loop"
    /\ npkts >= 2
    /\ mm1_loop_condition(total_pkts, npkts)
    /\ Len(arrived) >= 2
    /\ Len(departed) >= 1
    /\ Cardinality(ArrivalPositions) = 1
    /\ Cardinality(DeparturePositions) = 1

====
